---- MODULE Spec2Model ----
(***************************************************************************)
(* CirqBasedSimulator (orquestra/integrations/cirq/simulator/_base.py):    *)
(* the adapter between the generic wavefunction-simulator interface and a  *)
(* cirq/qsim simulator.  The adapter's two operations are modelled         *)
(* statement by statement; every call into the wrapped libraries is        *)
(* recorded in `calls`, and may either return or raise.                    *)
(*                                                                         *)
(* Complex numbers are pairs <<re, im>> of integers, matrices are          *)
(* functions 0..d-1 -> 0..d-1 -> complex, with d = 2^n_qubits.             *)
(***************************************************************************)
EXTENDS Integers, Sequences, FiniteSets, TLC

\* ---------------------------------------------------------------- bounds
MaxQubits == 1
MaxTerms == 2

\* ------------------------------------------------------- complex numbers
Re(z) == z[1]
Im(z) == z[2]
CAdd(a, b) == <<a[1] + b[1], a[2] + b[2]>>
CMul(a, b) == <<a[1] * b[1] - a[2] * b[2], a[1] * b[2] + a[2] * b[1]>>
CZero == <<0, 0>>
COne == <<1, 0>>

RECURSIVE Pow2(_)
Pow2(n) == IF n = 0 THEN 1 ELSE 2 * Pow2(n - 1)

\* bit of index r that belongs to qubit q (qubit 0 is the most significant)
Bit(r, q, n) == (r \div Pow2(n - 1 - q)) % 2

None == "None"

\* ------------------------------------------------ the generic input types
\* orquestra Circuit: its n_qubits and its operations
Gate(name, q) == [gate |-> name, qubit |-> q]

\* the empty circuit, and a Hadamard on qubit 0 when there is a qubit 0
GateSeqs(n) == IF n = 0 THEN {<<>>} ELSE {<<>>, <<Gate("H", 0)>>}

Circuits == UNION {{[n_qubits |-> n, operations |-> g] : g \in GateSeqs(n)} : n \in 0..MaxQubits}

\* a Pauli term: a complex coefficient and one Pauli label per qubit
Term(c, s) == [coefficient |-> c, paulis |-> s]

Single(n, q, p) == [k \in 0..(n - 1) |-> IF k = q THEN p ELSE "I"]

\* the terms drawn: the constant terms 1 and i, and, when there is a qubit,
\* Y on the first qubit and i*Z on the last
PauliTerms(n) ==
    {Term(<<1, 0>>, Single(n, n, "I")), Term(<<0, 1>>, Single(n, n, "I"))}
    \cup (IF n = 0 THEN {}
          ELSE {Term(<<1, 0>>, Single(n, 0, "Y")), Term(<<0, 1>>, Single(n, n - 1, "Z"))})

\* qubit_operator.terms: a list of terms
Operators(n) == UNION {[1..k -> PauliTerms(n)] : k \in 0..MaxTerms}

\* the caller's initial state: one real amplitude per basis state
InitialStates(n) == {[k \in 1..Pow2(n) |-> IF k = j THEN 1 ELSE 0] : j \in {1, Pow2(n)}}

\* ------------------------------------------------------ wrapped libraries
\* orquestra.quantum.circuits.I(i)
I(i) == Gate("I", i)

\* conversions.export_to_cirq: generic circuit -> cirq.Circuit
ExportGate(g) == [cirq_gate |-> g.gate, line_qubit |-> g.qubit]

export_to_cirq(c) == [moments |-> [k \in 1..Len(c.operations) |-> ExportGate(c.operations[k])]]

\* cirq.Circuit.with_noise
with_noise(cc, noise) == [moments |-> cc.moments, noise |-> noise]

PauliMatrix(p) ==
    CASE p = "I" -> <<<<COne, CZero>>, <<CZero, COne>>>>
      [] p = "X" -> <<<<CZero, COne>>, <<COne, CZero>>>>
      [] p = "Y" -> <<<<CZero, <<0, -1>>>>, <<<<0, 1>>, CZero>>>>
      [] p = "Z" -> <<<<COne, CZero>>, <<CZero, <<-1, 0>>>>>>

RECURSIVE KronEntry(_, _, _, _, _)
KronEntry(s, r, c, q, n) ==
    IF q = n THEN COne
    ELSE CMul(PauliMatrix(s[q])[Bit(r, q, n) + 1][Bit(c, q, n) + 1], KronEntry(s, r, c, q + 1, n))

\* orquestra.quantum.operators.get_sparse_operator(term, n_qubits).toarray()
get_sparse_operator(term, n) ==
    [r \in 0..(Pow2(n) - 1) |-> [c \in 0..(Pow2(n) - 1) |->
        CMul(term.coefficient, KronEntry(term.paulis, r, c, 0, n))]]

\* np.size of a square array
Size(m) == Cardinality(DOMAIN m) * Cardinality(DOMAIN m)

RECURSIVE SumTo(_, _)
SumTo(f, k) == IF k < 0 THEN CZero ELSE CAdd(f[k], SumTo(f, k - 1))

\* a @ b
MatMul(a, b) ==
    LET d == Cardinality(DOMAIN a)
    IN  [r \in 0..(d - 1) |-> [c \in 0..(d - 1) |->
            SumTo([k \in 0..(d - 1) |-> CMul(a[r][k], b[k][c])], d - 1)]]

\* np.trace
Trace(m) == SumTo([k \in DOMAIN m |-> m[k][k]], Cardinality(DOMAIN m) - 1)

\* what simulator.simulate may hand back for a circuit on n qubits: the
\* simulator is a black box, so the result is any of these
SimulationResults(n) ==
    LET D == 0..(Pow2(n) - 1)
    IN  { [density_matrix |-> [r \in D |-> [c \in D |-> IF r = 0 /\ c = 0 THEN COne ELSE CZero]],
           final_state_vector |-> [k \in 1..Pow2(n) |-> IF k = 1 THEN COne ELSE CZero]],
          [density_matrix |-> [r \in D |-> [c \in D |->
                                 IF r = c THEN COne ELSE IF r < c THEN <<0, 1>> ELSE <<0, -1>>]],
           final_state_vector |-> [k \in 1..Pow2(n) |-> <<1, k>>]] }

\* errors the wrapped libraries may raise
LibraryErrors == {"ValueError", "TypeError"}

\* ------------------------------------------------------------------ state
VARIABLES
    noise_model, param_resolver, qubit_order,   \* the fields set by __init__
    pc, op,                                     \* the running operation and its position
    args,                                       \* the arguments of the running call
    circuit, cirq_circuit, values, idx,         \* its local variables
    calls,                                      \* calls made into the wrapped libraries
    result, error                               \* what the call returned / raised

vars == <<noise_model, param_resolver, qubit_order, pc, op, args,
          circuit, cirq_circuit, values, idx, calls, result, error>>

fields == <<noise_model, param_resolver, qubit_order>>

NoCircuit == [n_qubits |-> 0, operations |-> <<>>]
NoArgs == [circuit |-> NoCircuit, terms |-> <<>>, initial_state |-> <<>>]

\* a call into a wrapped library: its arguments, and what it returned (out
\* holds the value) or raised
Returned(fn, a, v) == [fn |-> fn, arg |-> a, raised |-> None, out |-> <<v>>]
Raised(fn, a, e) == [fn |-> fn, arg |-> a, raised |-> e, out |-> <<>>]

\* __init__: the four constructor arguments are stored as given
Init ==
    /\ noise_model \in {None, "depolarize"}
    /\ \E given \in {<<None, "DEFAULT">>, <<"resolver", "reversed">>} :
         /\ param_resolver = given[1]
         /\ qubit_order = given[2]
    /\ pc = "idle"
    /\ op = None
    /\ args = NoArgs
    /\ circuit = NoCircuit
    /\ cirq_circuit = <<>>
    /\ values = <<>>
    /\ idx = 0
    /\ calls = <<>>
    /\ result = <<>>
    /\ error = None

\* a call of one of the two operations on the constructed simulator
Enter(o, a, start) ==
    /\ pc = "idle"
    /\ op' = o
    /\ args' = a
    /\ circuit' = a.circuit
    /\ cirq_circuit' = <<>>
    /\ values' = <<>>
    /\ idx' = 0
    /\ calls' = <<>>
    /\ result' = <<>>
    /\ error' = None
    /\ pc' = start
    /\ UNCHANGED fields

\* (mutant) the exception is caught and what was computed so far is returned
RaiseCaught(e) ==
    /\ pc' = "returned"
    /\ error' = None
    /\ result' = <<values>>

\* an exception leaves the operation: nothing is returned
Raise(e) ==
    /\ pc' = "raised"
    /\ error' = e
    /\ result' = <<>>

\* ------------------------------------ get_exact_noisy_expectation_values
InvokeExpectationValues ==
    \E c \in Circuits : \E o \in Operators(c.n_qubits) :
        Enter("get_exact_noisy_expectation_values",
              [circuit |-> c, terms |-> o, initial_state |-> <<>>],
              "check_noise_model")

\* (mutant) the precondition is not checked
CheckNoiseModelSkipped ==
    /\ pc = "check_noise_model"
    /\ pc' = "export"
    /\ UNCHANGED <<fields, op, args, circuit, cirq_circuit, values, idx, calls, result, error>>

\* if self.noise_model is None: raise RuntimeError(...)
CheckNoiseModel ==
    /\ pc = "check_noise_model"
    /\ IF noise_model = None
       THEN Raise("RuntimeError")
       ELSE pc' = "export" /\ UNCHANGED <<result, error>>
    /\ UNCHANGED <<fields, op, args, circuit, cirq_circuit, values, idx, calls>>

\* cirq_circuit = cast(cirq.Circuit, export_to_cirq(circuit)); values = []
ExportCircuit ==
    /\ pc = "export"
    /\ op = "get_exact_noisy_expectation_values"
    /\ \/ /\ calls' = Append(calls, Returned("export_to_cirq", <<circuit>>, export_to_cirq(circuit)))
          /\ cirq_circuit' = <<export_to_cirq(circuit)>>
          /\ values' = <<>>
          /\ pc' = "terms"
          /\ UNCHANGED <<result, error>>
       \/ \E e \in LibraryErrors :
             /\ calls' = Append(calls, Raised("export_to_cirq", <<circuit>>, e))
             /\ Raise(e)
             /\ UNCHANGED <<cirq_circuit, values>>
    /\ UNCHANGED <<fields, op, args, circuit, idx>>

\* the term the loop is at, and its matrix
pauli_term == args.terms[idx + 1]
sparse_pauli_term_ndarray == get_sparse_operator(pauli_term, circuit.n_qubits)

SparseCall == Returned("get_sparse_operator", <<pauli_term, circuit.n_qubits>>, sparse_pauli_term_ndarray)

\* (mutant) the single-entry branch is never taken
IsSingleEntryNever(m) == FALSE

\* if np.size(sparse_pauli_term_ndarray) == 1
IsSingleEntry(m) == Size(m) = 1

\* (mutant) the value is put at the front of the list
AppendValueFront(vs, v) == <<v>> \o vs

\* values.append(expectation_value)
AppendValue(vs, v) == Append(vs, v)

\* noisy_circuit = cirq_circuit.with_noise(self.noise_model)
noisy_circuit == with_noise(cirq_circuit[1], noise_model)

\* (mutant) the noiseless circuit is simulated
SimulatedCircuitNoiseless == cirq_circuit[1]

\* the circuit handed to self.simulator.simulate
SimulatedCircuit == noisy_circuit

\* self._extract_density_matrix(result): result.density_matrix_of()
extract_density_matrix(res) == res.density_matrix

\* np.real(np.trace(rho @ sparse_pauli_term_ndarray)), as an array element
ExpectationValue(rho, m) == <<Re(Trace(MatMul(rho, m))), 0>>

InLoop ==
    /\ pc = "terms"
    /\ idx < Len(args.terms)

\* one loop iteration, the matrix having a single entry
TermSingleEntry ==
    /\ InLoop
    /\ IsSingleEntry(sparse_pauli_term_ndarray)
    /\ calls' = Append(calls, SparseCall)
    /\ values' = AppendValue(values, sparse_pauli_term_ndarray[0][0])
    /\ idx' = idx + 1
    /\ UNCHANGED <<fields, pc, op, args, circuit, cirq_circuit, result, error>>

\* one loop iteration, the matrix having more than one entry
TermSimulated ==
    /\ InLoop
    /\ ~IsSingleEntry(sparse_pauli_term_ndarray)
    /\ \E res \in SimulationResults(circuit.n_qubits) :
         /\ calls' = calls \o <<SparseCall,
                                 Returned("with_noise", <<cirq_circuit[1], noise_model>>, noisy_circuit),
                                 Returned("simulate", <<SimulatedCircuit>>, res)>>
         /\ values' = AppendValue(values,
                           ExpectationValue(extract_density_matrix(res), sparse_pauli_term_ndarray))
    /\ idx' = idx + 1
    /\ UNCHANGED <<fields, pc, op, args, circuit, cirq_circuit, result, error>>

\* one loop iteration in which a wrapped library raises
TermRaises ==
    /\ InLoop
    /\ \E e \in LibraryErrors :
         /\ \/ calls' = Append(calls, Raised("get_sparse_operator", <<pauli_term, circuit.n_qubits>>, e))
            \/ /\ ~IsSingleEntry(sparse_pauli_term_ndarray)
               /\ calls' = calls \o <<SparseCall,
                                       Raised("with_noise", <<cirq_circuit[1], noise_model>>, e)>>
            \/ /\ ~IsSingleEntry(sparse_pauli_term_ndarray)
               /\ calls' = calls \o <<SparseCall,
                                       Returned("with_noise", <<cirq_circuit[1], noise_model>>, noisy_circuit),
                                       Raised("simulate", <<SimulatedCircuit>>, e)>>
         /\ Raise(e)
    /\ UNCHANGED <<fields, op, args, circuit, cirq_circuit, values, idx>>

\* orquestra.quantum.measurements.expectation_values_to_real: the real part
\* of every value, in place
RECURSIVE expectation_values_to_real(_)
expectation_values_to_real(vs) ==
    IF vs = <<>> THEN <<>> ELSE <<Re(Head(vs))>> \o expectation_values_to_real(Tail(vs))

\* return expectation_values_to_real(ExpectationValues(np.asarray(values)))
ReturnExpectationValues ==
    /\ pc = "terms"
    /\ idx = Len(args.terms)
    /\ \/ /\ calls' = Append(calls, Returned("expectation_values_to_real", <<values>>,
                                               expectation_values_to_real(values)))
          /\ result' = <<expectation_values_to_real(values)>>
          /\ pc' = "returned"
          /\ UNCHANGED error
       \/ \E e \in LibraryErrors :
             /\ calls' = Append(calls, Raised("expectation_values_to_real", <<values>>, e))
             /\ Raise(e)
    /\ UNCHANGED <<fields, op, args, circuit, cirq_circuit, values, idx>>

\* ---------------------------------- _get_wavefunction_from_native_circuit
InvokeWavefunction ==
    \E c \in Circuits : \E s \in InitialStates(c.n_qubits) :
        Enter("_get_wavefunction_from_native_circuit",
              [circuit |-> c, terms |-> <<>>, initial_state |-> s],
              "pad")

RECURSIVE Identities(_)
Identities(n) == IF n = 0 THEN <<>> ELSE Append(Identities(n - 1), I(n - 1))

\* for i in range(circuit.n_qubits): circuit += I(i)
Padded(c) == [n_qubits |-> c.n_qubits, operations |-> c.operations \o Identities(c.n_qubits)]

PadCircuit ==
    /\ pc = "pad"
    /\ circuit' = Padded(circuit)
    /\ pc' = "export"
    /\ UNCHANGED <<fields, op, args, cirq_circuit, values, idx, calls, result, error>>

\* (mutant) the circuit is converted without its identities
ExportedCircuitUnpadded == args.circuit

\* the circuit handed to export_to_cirq
ExportedCircuit == circuit

\* cirq_circuit = cast(cirq.Circuit, export_to_cirq(circuit))
ExportPaddedCircuit ==
    /\ pc = "export"
    /\ op = "_get_wavefunction_from_native_circuit"
    /\ \/ /\ calls' = Append(calls, Returned("export_to_cirq", <<ExportedCircuit>>,
                                               export_to_cirq(ExportedCircuit)))
          /\ cirq_circuit' = <<export_to_cirq(ExportedCircuit)>>
          /\ pc' = "simulate"
          /\ UNCHANGED <<result, error>>
       \/ \E e \in LibraryErrors :
             /\ calls' = Append(calls, Raised("export_to_cirq", <<ExportedCircuit>>, e))
             /\ Raise(e)
             /\ UNCHANGED cirq_circuit
    /\ UNCHANGED <<fields, op, args, circuit, values, idx>>

\* np.array(initial_state, np.complex64): every amplitude becomes complex
complex64(state) == [k \in DOMAIN state |-> <<state[k], 0>>]

\* (mutant) the stored qubit order is not passed on
SimulateArgumentsDefaultOrder ==
    [program |-> cirq_circuit[1],
     param_resolver |-> param_resolver,
     qubit_order |-> "DEFAULT",
     initial_state |-> complex64(args.initial_state)]

\* the arguments of self.simulator.simulate
SimulateArguments ==
    [program |-> cirq_circuit[1],
     param_resolver |-> param_resolver,
     qubit_order |-> qubit_order,
     initial_state |-> complex64(args.initial_state)]

\* return simulated_result.final_state_vector
Wavefunction(simulated_result) == simulated_result.final_state_vector

SimulateWavefunction ==
    /\ pc = "simulate"
    /\ \/ \E simulated_result \in SimulationResults(circuit.n_qubits) :
             /\ calls' = Append(calls, Returned("simulate", <<SimulateArguments>>, simulated_result))
             /\ result' = <<Wavefunction(simulated_result)>>
             /\ pc' = "returned"
             /\ UNCHANGED error
       \/ \E e \in LibraryErrors :
             /\ calls' = Append(calls, Raised("simulate", <<SimulateArguments>>, e))
             /\ Raise(e)
    /\ UNCHANGED <<fields, op, args, circuit, cirq_circuit, values, idx>>

\* the call is over: its result or exception is the caller's, its frame is gone
Leave ==
    /\ pc \in {"returned", "raised"}
    /\ pc' = "idle"
    /\ op' = None
    /\ args' = NoArgs
    /\ circuit' = NoCircuit
    /\ cirq_circuit' = <<>>
    /\ values' = <<>>
    /\ idx' = 0
    /\ calls' = <<>>
    /\ result' = <<>>
    /\ error' = None
    /\ UNCHANGED fields

Next ==
    \/ InvokeExpectationValues
    \/ InvokeWavefunction
    \/ PadCircuit
    \/ ExportPaddedCircuit
    \/ SimulateWavefunction
    \/ Leave
    \/ CheckNoiseModel
    \/ ExportCircuit
    \/ TermSingleEntry
    \/ TermSimulated
    \/ TermRaises
    \/ ReturnExpectationValues

Spec == Init /\ [][Next]_vars

\* ----------------------------------------------------------------- claims
Expectation == op = "get_exact_noisy_expectation_values"
Wavefunctions == op = "_get_wavefunction_from_native_circuit"

CallsOf(fn) == SelectSeq(calls, LAMBDA c : c.fn = fn)
SimulateCalls == CallsOf("simulate")
ExportCalls == CallsOf("export_to_cirq")

\* the matrix of the i-th term of the operator, and the number of its entries
TermMatrix(i) == get_sparse_operator(args.terms[i], args.circuit.n_qubits)
Entries(m) == Cardinality((DOMAIN m) \X (DOMAIN m))
MultiEntryUpTo(i) == {j \in 1..i : Entries(TermMatrix(j)) > 1}

\* the density matrix of the simulation made for the i-th term
RhoOf(i) == SimulateCalls[Cardinality(MultiEntryUpTo(i))].out[1].density_matrix

\* C1: with noise_model None, get_exact_noisy_expectation_values does
\* nothing but raise RuntimeError: whatever the circuit and the operator,
\* the call is either about to check the noise model or has raised
\* RuntimeError, it has returned nothing, and it has made no call into the
\* wrapped libraries (no conversion, no simulate).
C1_NoNoiseModelRaises ==
    (Expectation /\ noise_model = None) =>
        /\ pc \in {"check_noise_model", "raised"}
        /\ pc = "check_noise_model" => ENABLED CheckNoiseModel
        /\ pc = "raised" => error = "RuntimeError"
        /\ result = <<>>
        /\ ExportCalls = <<>>
        /\ SimulateCalls = <<>>
        /\ calls = <<>>

C1_Witness ==
    /\ Expectation
    /\ noise_model = None
    /\ pc = "raised"
    /\ error = "RuntimeError"
    /\ args.terms = <<>>

\* C2: a get_exact_noisy_expectation_values call that returns gives one
\* value per term of the operator, the i-th being (the real part of) the
\* value computed for the i-th term.
C2_OneValuePerTermInOrder ==
    (Expectation /\ pc = "returned") =>
        /\ noise_model # None
        /\ \A k \in 1..Len(calls) : calls[k].raised = None
        /\ Len(result[1]) = Len(args.terms)
        /\ \A i \in 1..Len(args.terms) :
              result[1][i] =
                  IF Entries(TermMatrix(i)) = 1
                  THEN Re(TermMatrix(i)[0][0])
                  ELSE Re(ExpectationValue(RhoOf(i), TermMatrix(i)))

C2_Witness ==
    /\ Expectation
    /\ pc = "returned"
    /\ Len(args.terms) = 2
    /\ result[1][1] # result[1][2]
    /\ Len(SimulateCalls) = 2

C2_WitnessNoTerms ==
    /\ Expectation
    /\ pc = "returned"
    /\ args.terms = <<>>
    /\ result = <<(<<>>)>>

\* C3: an error raised by a wrapped library (conversion, sparse-operator
\* construction, with_noise, simulate, expectation_values_to_real) leaves the
\* operation as it is: the failing call is the last call the operation
\* makes (no retry, nothing after it), the operation ends raising that very
\* error, and it returns nothing, whatever values it had computed before.
C3_LibraryErrorPropagates ==
    /\ \A k \in 1..Len(calls) :
          calls[k].raised # None =>
              /\ k = Len(calls)
              /\ pc = "raised"
              /\ error = calls[k].raised
              /\ result = <<>>
    /\ (pc = "raised" /\ error # "RuntimeError") =>
          (calls # <<>> /\ calls[Len(calls)].raised = error)
    /\ pc = "returned" => error = None

C3_Witness ==
    /\ Expectation
    /\ pc = "raised"
    /\ error = "ValueError"
    /\ calls[Len(calls)].fn = "simulate"
    /\ Len(values) = 1
    /\ result = <<>>

C3_WitnessWavefunction ==
    /\ Wavefunctions
    /\ pc = "raised"
    /\ error = "TypeError"
    /\ calls[Len(calls)].fn = "export_to_cirq"

\* the input circuit followed by one identity per qubit
IdentityPadded(c) ==
    [n_qubits |-> c.n_qubits,
     operations |-> c.operations \o [k \in 1..c.n_qubits |-> [gate |-> "I", qubit |-> k - 1]]]

ConvertedInput == IF Wavefunctions THEN IdentityPadded(args.circuit) ELSE args.circuit

\* the backend-native circuit a simulate call was given
ProgramOf(call) == IF Wavefunctions THEN call.arg[1].program ELSE call.arg[1]

C4_WitnessWavefunction ==
    /\ Wavefunctions
    /\ pc = "returned"
    /\ args.circuit.n_qubits = 1
    /\ args.circuit.operations = <<>>
    /\ Len(SimulateCalls) = 1
    /\ Len(ExportCalls) = 1

\* C5: _get_wavefunction_from_native_circuit never makes more than one
\* simulate call, and when it returns it has made exactly one: with the
\* converted padded circuit, the stored param_resolver and qubit_order, and
\* the caller's initial state with every amplitude made complex; what it
\* returns is the final_state_vector of that call's result.
C5_WavefunctionFromOneSimulation ==
    Wavefunctions =>
        /\ Len(SimulateCalls) <= 1
        /\ pc = "returned" =>
              /\ Len(SimulateCalls) = 1
              /\ LET call == SimulateCalls[1]
                     given == call.arg[1]
                 IN  /\ given.program = export_to_cirq(IdentityPadded(args.circuit))
                     /\ given.param_resolver = param_resolver
                     /\ given.qubit_order = qubit_order
                     /\ Len(given.initial_state) = Len(args.initial_state)
                     /\ \A k \in 1..Len(args.initial_state) :
                           given.initial_state[k] = <<args.initial_state[k], 0>>
                     /\ call.raised = None
                     /\ result = <<call.out[1].final_state_vector>>

C5_Witness ==
    /\ Wavefunctions
    /\ pc = "returned"
    /\ param_resolver = "resolver"
    /\ qubit_order = "reversed"
    /\ args.circuit.n_qubits = 1
    /\ args.initial_state = <<0, 1>>
    /\ result = <<(<<(<<1, 1>>), (<<1, 2>>)>>)>>

\* C6: a term whose matrix has exactly one entry contributes that entry and
\* no simulation, every other term one simulation: the simulate calls made
\* so far are as many as the processed terms with more than one entry, so a
\* call that returns has made as many as the operator has such terms (none
\* when every matrix is 1x1 or there is no term).
C6_SimulationsCountMultiEntryTerms ==
    Expectation =>
        /\ \A i \in 1..Len(values) :
              Entries(TermMatrix(i)) = 1 => values[i] = TermMatrix(i)[0][0]
        /\ pc \in {"terms", "returned"} =>
              /\ Len(values) = idx
              /\ Len(SimulateCalls) = Cardinality(MultiEntryUpTo(idx))
        /\ pc = "returned" =>
              /\ idx = Len(args.terms)
              /\ Len(SimulateCalls) = Cardinality(MultiEntryUpTo(Len(args.terms)))
              /\ (\A i \in 1..Len(args.terms) : Entries(TermMatrix(i)) = 1) => SimulateCalls = <<>>

C6_Witness ==
    /\ Expectation
    /\ pc = "returned"
    /\ args.circuit.n_qubits = 0
    /\ values = <<(<<0, 1>>), (<<1, 0>>)>>
    /\ SimulateCalls = <<>>

C6_WitnessSimulated ==
    /\ Expectation
    /\ pc = "returned"
    /\ args.circuit.n_qubits = 1
    /\ Len(args.terms) = 2
    /\ Len(SimulateCalls) = 2

\* trace(rho @ m), entry by entry
TraceOfProduct(rho, m) ==
    LET D == DOMAIN rho
        pairs == D \X D
        RECURSIVE Sum(_)
        Sum(ps) == IF ps = {} THEN CZero
                   ELSE LET p == CHOOSE x \in ps : TRUE
                        IN  CAdd(CMul(rho[p[1]][p[2]], m[p[2]][p[1]]), Sum(ps \ {p}))
    IN  Sum(pairs)

\* C7: every simulation of get_exact_noisy_expectation_values is of the
\* converted input circuit with the stored (not None) noise model applied,
\* the same for every term, and the value recorded for a term with more
\* than one entry is the real part of trace(rho * term matrix), rho being
\* the density matrix of the simulation made for that term.
C7_NoisyCircuitAndTrace ==
    Expectation =>
        /\ \A k \in 1..Len(SimulateCalls) :
              /\ noise_model # None
              /\ "noise" \in DOMAIN SimulateCalls[k].arg[1]
              /\ SimulateCalls[k].arg[1].noise = noise_model
              /\ SimulateCalls[k].arg[1].moments = export_to_cirq(args.circuit).moments
              /\ SimulateCalls[k].arg = SimulateCalls[1].arg
        /\ \A i \in 1..Len(values) :
              Entries(TermMatrix(i)) > 1 =>
                  /\ Re(values[i]) = Re(TraceOfProduct(RhoOf(i), TermMatrix(i)))
                  /\ Im(values[i]) = 0

C7_Witness ==
    /\ Expectation
    /\ pc = "returned"
    /\ args.terms = <<Term(<<1, 0>>, Single(1, 0, "Y")), Term(<<0, 1>>, Single(1, 0, "Z"))>>
    /\ Len(SimulateCalls) = 2
    /\ SimulateCalls[1].out # SimulateCalls[2].out
    /\ Re(values[1]) = -2
====
